---- MODULE Spec2Model ----
(***************************************************************************)
(* wsl-clip-bridge (src/src/main.rs): an xclip-compatible command that     *)
(* keeps one text payload and one image payload on disk with a TTL.        *)
(*                                                                         *)
(* Every invocation of the binary is one action.  The state is what        *)
(* outlives an invocation: the storage directory with text.txt, image.bin  *)
(* and image.format, the config resource and the wall clock.  `pre` and    *)
(* `last` are history variables: the files as the last invocation found    *)
(* them, and that invocation's arguments, exit status and standard output; *)
(* `declared` is the MIME kind given by the invocation that last wrote     *)
(* image.bin, if that invocation exited 0; `staleSeen` is the set of slots  *)
(* that an output-mode invocation has found with the TTL elapsed and that   *)
(* no input has written since.                                             *)
(*                                                                         *)
(* Where invocations overlap, each is a process of `procs` that takes the  *)
(* file-system calls of the code one at a time.                            *)
(*                                                                         *)
(* Strings that the code inspects by prefix (MIME kinds) are sequences of  *)
(* chunks whose concatenation is the string, so that starts_with is a real *)
(* prefix test.  Paths are sequences of components, as std::path::Path     *)
(* compares them.  A payload is [len, id, dims]: its length in bytes, a    *)
(* tag standing for its bytes, and what the image decoder makes of it      *)
(* (<<>> when it does not decode, else <<width, height>>).  Option<T> is   *)
(* <<>> for None and <<v>> for Some(v).                                    *)
(***************************************************************************)
EXTENDS Integers, Sequences, FiniteSets, TLC

VARIABLES dir, text, image, format, cfg, now, declared, pre, last, procs, staleSeen

vars ==
    <<dir, text, image, format, cfg, now, declared, pre, last, procs, staleSeen>>

None == <<>>

Some(v) == <<v>>

\* ------------------------------------------------------------------ bounds

\* The clock advances in whole seconds up to MaxTime.
MaxTime == 2

\* ------------------------------------------------------- program constants

BytesPerMb == 1024 * 1024

DefaultStdinLimitMb == 100

DefaultTtlSecs == 300

MaxTtlSecs == 86400

DefaultMaxImageDimension == 1568

\* ---------------------------------------------------------------- strings

TextPlain == <<"text/plain">>

TextPlainUtf8 == <<"text/plain", ";charset=utf-8">>

StringTarget == <<"STRING">>

TargetsArg == <<"TARGETS">>

ImagePng == <<"image/png">>

ImageJpeg == <<"image/jpeg">>

ImageJpg == <<"image/jpg">>

ImageGif == <<"image/gif">>

ImageWebp == <<"image/webp">>

OctetStream == <<"application/octet-stream">>

\* str::starts_with / Path::starts_with: p begins with all of q.
StartsWith(p, q) ==
    /\ Len(q) <= Len(p)
    /\ SubSeq(p, 1, Len(q)) = q

\* A variant that demands the bare kind where the code takes any
\* text/plain prefix.
IsTextMimeExact(m) == m = TextPlain

\* The first arm of the match in output_type and input_type.
IsTextMime(m) == StartsWith(m, TextPlain)

\* The second arm of the match in output_type and input_type.
IsImageMime(m) == m \in {ImagePng, ImageJpeg, ImageJpg, ImageGif, ImageWebp}

\* ------------------------------------------------------------------ files

Mode700 == "0700"

Mode600 == "0600"

\* What File::create and fs::write give a new file under the usual umask.
ModeCreated == "0644"

Payload(len, id, dims) == [len |-> len, id |-> id, dims |-> dims]

EmptyPayload == Payload(0, "", None)

NoDir == [exists |-> FALSE, mode |-> ""]

NoFile == [exists |-> FALSE, data |-> EmptyPayload, mtime |-> 0, mode |-> ""]

NoSidecar == [exists |-> FALSE, fmt |-> <<>>, mode |-> ""]

\* File::create + write_all at time t: the content is replaced, the
\* modification time is t, an existing file keeps its mode.
Written(f, data, t) ==
    [exists |-> TRUE, data |-> data, mtime |-> t,
     mode |-> IF f.exists THEN f.mode ELSE ModeCreated]

\* fs::write of the sidecar.
WrittenSidecar(s, fmt) ==
    [exists |-> TRUE, fmt |-> fmt,
     mode |-> IF s.exists THEN s.mode ELSE ModeCreated]

\* fs::set_permissions(path, mode) on an existing file.
Chmod(f, mode) == IF f.exists THEN [f EXCEPT !.mode = mode] ELSE f

\* ----------------------------------------------- the source file system

\* The one symbolic link outside the storage directory: /h -> /home.
IsSymlink(p) == p = <<"h">>

LinkTarget(p) == <<"home">>

\* The regular files that exist, by canonical path.
SourceFiles == {<<"home", "a">>, <<"mnt", "b">>}

RECURSIVE Resolve(_, _)

\* realpath: walk the components, following symbolic links and "..".
Resolve(done, rest) ==
    IF rest = <<>> THEN done
    ELSE LET c == Head(rest)
             up == IF done = <<>> THEN done ELSE SubSeq(done, 1, Len(done) - 1)
             down == Append(done, c)
         IN  IF c = ".." THEN Resolve(up, Tail(rest))
             ELSE IF IsSymlink(down) THEN Resolve(LinkTarget(down), Tail(rest))
             ELSE Resolve(down, Tail(rest))

\* Path::canonicalize: Err (None) when the path names nothing.
Canonicalize(p) ==
    IF Resolve(<<>>, p) \in SourceFiles THEN Some(Resolve(<<>>, p)) ELSE None

\* File::open / fs::copy / fs::metadata succeed on a path that names a file.
FileExists(p) == Canonicalize(p) # None

\* ----------------------------------------------------------------- config

\* BridgeConfig as toml::from_str yields it; every field is an Option.
Config(ttl, dim, mb, restrict, allowed) ==
    [kind |-> "toml", ttl_secs |-> ttl, max_image_dimension |-> dim,
     max_file_size_mb |-> mb, restrict_to_home |-> restrict,
     allowed_directories |-> allowed]

\* No file at config_path().
AbsentConfig ==
    [kind |-> "absent", ttl_secs |-> None, max_image_dimension |-> None,
     max_file_size_mb |-> None, restrict_to_home |-> None,
     allowed_directories |-> None]

\* A file at config_path() that toml::from_str rejects.
InvalidConfig == [AbsentConfig EXCEPT !.kind = "invalid"]

\* The text load_config writes when there is no config, as it parses.
DefaultConfig ==
    Config(Some(DefaultTtlSecs), Some(DefaultMaxImageDimension),
           Some(DefaultStdinLimitMb), Some(TRUE), None)

\* load_config on the resource c: what it returns and what it leaves on disk.
LoadConfig(c) ==
    IF c.kind = "absent" THEN [config |-> None, file |-> DefaultConfig]
    ELSE IF c.kind = "invalid" THEN [config |-> None, file |-> c]
    ELSE [config |-> Some(c), file |-> c]

Min(a, b) == IF a <= b THEN a ELSE b

Max(a, b) == IF a >= b THEN a ELSE b

\* The value of WSL_CLIP_BRIDGE_TTL_SECS: text that parses as a u64, or not.
EnvSecs(n) == [ok |-> TRUE, n |-> n]

EnvGarbage == [ok |-> FALSE, n |-> 0]

\* A variant that leaves out the 24-hour ceiling.
LoadTtlUnclamped(env, c) ==
    IF env # None /\ env[1].ok
    THEN [ttl |-> env[1].n, file |-> c]
    ELSE LET r == LoadConfig(c)
         IN  IF r.config # None /\ r.config[1].ttl_secs # None
             THEN [ttl |-> r.config[1].ttl_secs[1], file |-> r.file]
             ELSE [ttl |-> DefaultTtlSecs, file |-> r.file]

\* load_ttl under the environment value env (an Option) and the resource c.
LoadTtl(env, c) ==
    IF env # None /\ env[1].ok
    THEN [ttl |-> Min(env[1].n, MaxTtlSecs), file |-> c]
    ELSE LET r == LoadConfig(c)
         IN  IF r.config # None /\ r.config[1].ttl_secs # None
             THEN [ttl |-> Min(r.config[1].ttl_secs[1], MaxTtlSecs), file |-> r.file]
             ELSE [ttl |-> DefaultTtlSecs, file |-> r.file]

\* -------------------------------------------------------------- freshness

IsFileNonEmpty(f) == f.exists /\ f.data.len > 0

\* A variant that excludes the boundary.
IsFileFreshStrict(f, ttl, t) ==
    /\ f.exists
    /\ f.mtime <= t
    /\ t - f.mtime < ttl
    /\ f.exists /\ f.data.len > 0

\* is_file_fresh at time t: metadata and modified() succeed, duration_since
\* succeeds (the file is not from the future), elapsed <= ttl, non-empty.
IsFileFresh(f, ttl, t) ==
    /\ f.exists
    /\ f.mtime <= t
    /\ t - f.mtime <= ttl
    /\ IsFileNonEmpty(f)

\* ------------------------------------------------------------- validation

\* A variant that compares the path as given, without canonicalize.
ValidateFileAccessAsGiven(path, size, home, c) ==
    LET r == LoadConfig(c)
        k == r.config[1]
        tooLarge ==
            /\ k.max_file_size_mb # None
            /\ k.max_file_size_mb[1] > 0
            /\ FileExists(path)
            /\ size > k.max_file_size_mb[1] * BytesPerMb
        outsideHome ==
            /\ k.restrict_to_home # None
            /\ k.restrict_to_home[1]
            /\ home # None
            /\ ~StartsWith(path, home[1])
        notAllowed ==
            /\ k.allowed_directories # None
            /\ k.allowed_directories[1] # <<>>
            /\ ~\E i \in 1..Len(k.allowed_directories[1]) :
                    StartsWith(path, k.allowed_directories[1][i])
    IN  [ok |-> r.config = None \/ (~tooLarge /\ ~outsideHome /\ ~notAllowed),
         file |-> r.file]

\* validate_file_access for a path whose file (if any) is size bytes long,
\* with HOME = home (an Option): Ok or Err, and the config resource after.
ValidateFileAccess(path, size, home, c) ==
    LET r == LoadConfig(c)
        k == r.config[1]
        canonical == IF Canonicalize(path) # None THEN Canonicalize(path)[1] ELSE path
        tooLarge ==
            /\ k.max_file_size_mb # None
            /\ k.max_file_size_mb[1] > 0
            /\ FileExists(path)
            /\ size > k.max_file_size_mb[1] * BytesPerMb
        outsideHome ==
            /\ k.restrict_to_home # None
            /\ k.restrict_to_home[1]
            /\ home # None
            /\ ~StartsWith(canonical, home[1])
        notAllowed ==
            /\ k.allowed_directories # None
            /\ k.allowed_directories[1] # <<>>
            /\ ~\E i \in 1..Len(k.allowed_directories[1]) :
                    StartsWith(canonical, k.allowed_directories[1][i])
    IN  [ok |-> r.config = None \/ (~tooLarge /\ ~outsideHome /\ ~notAllowed),
         file |-> r.file]

\* ------------------------------------------------------------- downscaling

\* What the encoder returns for a w x h picture: new bytes of that size.
Encoded(w, h) == Payload(w * h + 1, "resized", <<w, h>>)

\* A variant that also re-encodes a picture exactly as large as the limit.
DownscaleAtLimit(data, mime, maxDim, encOk) ==
    IF maxDim = None \/ maxDim[1] = 0 THEN data
    ELSE IF data.dims = None THEN data
    ELSE LET width == data.dims[1]
             height == data.dims[2]
             maxCurrent == IF width >= height THEN width ELSE height
             newWidth == (width * maxDim[1]) \div maxCurrent
             newHeight == (height * maxDim[1]) \div maxCurrent
         IN  IF maxCurrent < maxDim[1] THEN data
             ELSE IF ~encOk THEN data
             ELSE Encoded(newWidth, newHeight)

\* downscale_image_if_needed; encOk says whether write_to succeeds.  The
\* new dimensions are the truncated products of the code, in exact
\* arithmetic (the f32 products give the same for the pictures used here).
DownscaleImageIfNeeded(data, mime, maxDim, encOk) ==
    IF maxDim = None \/ maxDim[1] = 0 THEN data
    ELSE IF data.dims = None THEN data
    ELSE LET width == data.dims[1]
             height == data.dims[2]
             maxCurrent == Max(width, height)
             newWidth == (width * maxDim[1]) \div maxCurrent
             newHeight == (height * maxDim[1]) \div maxCurrent
         IN  IF maxCurrent <= maxDim[1] THEN data
             ELSE IF mime \notin {ImagePng, ImageJpeg, ImageJpg, ImageGif, ImageWebp}
             THEN data
             ELSE IF ~encOk THEN data
             ELSE Encoded(newWidth, newHeight)

\* ------------------------------------------------------------ invocations

\* What an invocation leaves behind: the three files, the config resource,
\* the exit status (err: through an io::Error rather than Ok(code)),
\* standard output (lines of a listing, or the bytes of a payload) and the
\* names of the files it created or wrote.
Outcome(t, i, f, c, code, err, lines, bytes, wrote) ==
    [text |-> t, image |-> i, format |-> f, cfg |-> c, code |-> code,
     err |-> err, lines |-> lines, bytes |-> bytes, wrote |-> wrote]

Snapshot ==
    [dir |-> dir, text |-> text, image |-> image, format |-> format,
     cfg |-> cfg, staleSeen |-> staleSeen]

Idle ==
    [op |-> "none", mime |-> <<>>, file |-> None, data |-> EmptyPayload,
     home |-> None, env |-> None, ttl |-> None, code |-> 0, err |-> FALSE,
     lines |-> <<>>, bytes |-> None, wrote |-> {}]

\* ensure_storage_directory: the mode is set only on creation.
EnsureStorageDirectory(d) ==
    IF d.exists THEN d ELSE [exists |-> TRUE, mode |-> Mode700]

\* A variant that evicts an expired image.bin and forgets its sidecar.
TargetsOutcomeKeepsSidecar(env) ==
    LET lt == LoadTtl(env, cfg)
        imageFresh == IsFileFresh(image, lt.ttl, now)
        textFresh == IsFileFresh(text, lt.ttl, now)
        imageLines ==
            IF imageFresh /\ format.exists
            THEN <<format.fmt>> \o (IF format.fmt = ImageJpeg THEN <<ImageJpg>> ELSE <<>>)
            ELSE <<>>
        textLines == IF textFresh THEN <<TextPlainUtf8, StringTarget>> ELSE <<>>
        evictImage == ~imageFresh /\ image.exists
        evictText == ~textFresh /\ text.exists
    IN  Outcome(IF evictText THEN NoFile ELSE text,
                IF evictImage THEN NoFile ELSE image,
                format,
                lt.file, 0, FALSE, imageLines \o textLines, None, {})

\* A variant that lists the text slot before the image slot.
TargetsOutcomeTextFirst(env) ==
    LET lt == LoadTtl(env, cfg)
        imageFresh == IsFileFresh(image, lt.ttl, now)
        textFresh == IsFileFresh(text, lt.ttl, now)
        imageLines ==
            IF imageFresh /\ format.exists
            THEN <<format.fmt>> \o (IF format.fmt = ImageJpeg THEN <<ImageJpg>> ELSE <<>>)
            ELSE <<>>
        textLines == IF textFresh THEN <<TextPlainUtf8, StringTarget>> ELSE <<>>
        evictImage == ~imageFresh /\ image.exists
        evictText == ~textFresh /\ text.exists
    IN  Outcome(IF evictText THEN NoFile ELSE text,
                IF evictImage THEN NoFile ELSE image,
                IF evictImage THEN NoSidecar ELSE format,
                lt.file, 0, FALSE, textLines \o imageLines, None, {})

\* print_targets under the environment TTL env.
TargetsOutcome(env) ==
    LET lt == LoadTtl(env, cfg)
        imageFresh == IsFileFresh(image, lt.ttl, now)
        textFresh == IsFileFresh(text, lt.ttl, now)
        imageLines ==
            IF imageFresh /\ format.exists
            THEN <<format.fmt>> \o (IF format.fmt = ImageJpeg THEN <<ImageJpg>> ELSE <<>>)
            ELSE <<>>
        textLines == IF textFresh THEN <<TextPlainUtf8, StringTarget>> ELSE <<>>
        evictImage == ~imageFresh /\ image.exists
        evictText == ~textFresh /\ text.exists
    IN  Outcome(IF evictText THEN NoFile ELSE text,
                IF evictImage THEN NoFile ELSE image,
                IF evictImage THEN NoSidecar ELSE format,
                lt.file, 0, FALSE, imageLines \o textLines, None, {})

\* A variant that evicts whatever it does not serve.
OutputOutcomeEvictsUnserved(mime, env) ==
    LET lt == LoadTtl(env, cfg)
        matches ==
            /\ format.exists
            /\ \/ mime = format.fmt
               \/ (mime = ImageJpg /\ format.fmt = ImageJpeg)
    IN  IF IsTextMime(mime)
        THEN IF IsFileFresh(text, lt.ttl, now)
             THEN Outcome(text, image, format, lt.file, 0, FALSE, <<>>, Some(text.data), {})
             ELSE Outcome(NoFile, image, format, lt.file, 1, FALSE, <<>>, None, {})
        ELSE IF IsImageMime(mime)
        THEN IF IsFileFresh(image, lt.ttl, now) /\ matches
             THEN Outcome(text, image, format, lt.file, 0, FALSE, <<>>, Some(image.data), {})
             ELSE IF image.exists
             THEN Outcome(text, NoFile, NoSidecar, lt.file, 1, FALSE, <<>>, None, {})
             ELSE Outcome(text, image, format, lt.file, 1, FALSE, <<>>, None, {})
        ELSE Outcome(text, image, format, cfg, 1, FALSE, <<>>, None, {})

\* A variant that leaves what it finds stale in place.
OutputOutcomeKeepsStale(mime, env) ==
    LET lt == LoadTtl(env, cfg)
        matches ==
            /\ format.exists
            /\ \/ mime = format.fmt
               \/ (mime = ImageJpg /\ format.fmt = ImageJpeg)
    IN  IF IsTextMime(mime)
        THEN IF IsFileFresh(text, lt.ttl, now)
             THEN Outcome(text, image, format, lt.file, 0, FALSE, <<>>, Some(text.data), {})
             ELSE Outcome(text, image, format, lt.file, 1, FALSE, <<>>, None, {})
        ELSE IF IsImageMime(mime)
        THEN IF IsFileFresh(image, lt.ttl, now) /\ matches
             THEN Outcome(text, image, format, lt.file, 0, FALSE, <<>>, Some(image.data), {})
             ELSE Outcome(text, image, format, lt.file, 1, FALSE, <<>>, None, {})
        ELSE Outcome(text, image, format, cfg, 1, FALSE, <<>>, None, {})

\* output_type(mime) under the environment TTL env.
OutputOutcome(mime, env) ==
    LET lt == LoadTtl(env, cfg)
        matches ==
            /\ format.exists
            /\ \/ mime = format.fmt
               \/ (mime = ImageJpg /\ format.fmt = ImageJpeg)
    IN  IF IsTextMime(mime)
        THEN IF IsFileFresh(text, lt.ttl, now)
             THEN Outcome(text, image, format, lt.file, 0, FALSE, <<>>, Some(text.data), {})
             ELSE Outcome(NoFile, image, format, lt.file, 1, FALSE, <<>>, None, {})
        ELSE IF IsImageMime(mime)
        THEN IF IsFileFresh(image, lt.ttl, now)
             THEN IF matches
                  THEN Outcome(text, image, format, lt.file, 0, FALSE, <<>>, Some(image.data), {})
                  ELSE Outcome(text, image, format, lt.file, 1, FALSE, <<>>, None, {})
             ELSE IF image.exists
             THEN Outcome(text, NoFile, NoSidecar, lt.file, 1, FALSE, <<>>, None, {})
             ELSE Outcome(text, image, format, lt.file, 1, FALSE, <<>>, None, {})
        ELSE Outcome(text, image, format, cfg, 1, FALSE, <<>>, None, {})

\* A variant that keeps one payload at a time: storing a text drops the
\* image.
InputTextOutcomeClearsImage(file, data, home) ==
    LET v == ValidateFileAccess(file[1], data.len, home, cfg)
        stored == Chmod(Written(text, data, now), Mode600)
    IN  IF file # None
        THEN IF ~v.ok \/ ~FileExists(file[1])
             THEN Outcome(text, image, format, v.file, 1, TRUE, <<>>, None, {})
             ELSE Outcome(stored, NoFile, NoSidecar, v.file, 0, FALSE, <<>>, None,
                          {"text.txt"})
        ELSE Outcome(stored, NoFile, NoSidecar, cfg, 0, FALSE, <<>>, None, {"text.txt"})

\* The text/plain arm of input_type: from the file (validated, then
\* fs::copy) or from standard input; the result is left with mode 0600.
InputTextOutcome(file, data, home) ==
    LET v == ValidateFileAccess(file[1], data.len, home, cfg)
        stored == Chmod(Written(text, data, now), Mode600)
    IN  IF file # None
        THEN IF ~v.ok \/ ~FileExists(file[1])
             THEN Outcome(text, image, format, v.file, 1, TRUE, <<>>, None, {})
             ELSE Outcome(stored, image, format, v.file, 0, FALSE, <<>>, None, {"text.txt"})
        ELSE Outcome(stored, image, format, cfg, 0, FALSE, <<>>, None, {"text.txt"})

\* The byte limit of the standard-input branch (lines 342-345).
StdinMaxBytes(config) ==
    IF config # None /\ config[1].max_file_size_mb # None
    THEN config[1].max_file_size_mb[1] * BytesPerMb
    ELSE DefaultStdinLimitMb * BytesPerMb

\* A variant that reads one byte less, so that nothing read exceeds the limit.
TakeWithoutSlack(data, n) ==
    IF data.len <= n - 1 THEN data ELSE Payload(n - 1, "cut", None)

\* io::stdin().take(n).read_to_end: at most n bytes of the input.
Take(data, n) ==
    IF data.len <= n THEN data ELSE Payload(n, "cut", None)

\* A variant that records the MIME kind as declared.
StoreImageAsDeclared(imgData, mime, c, encOk, sidecarOk) ==
    LET r == LoadConfig(c)
        maxDim == IF r.config # None THEN r.config[1].max_image_dimension ELSE None
        processed == DownscaleImageIfNeeded(imgData, mime, maxDim, encOk)
        payload == Written(image, processed, now)
    IN  IF sidecarOk
        THEN Outcome(text, Chmod(payload, Mode600),
                     Chmod(WrittenSidecar(format, mime), Mode600),
                     r.file, 0, FALSE, <<>>, None,
                     {"image.bin", "image.format"})
        ELSE Outcome(text, payload, format, r.file, 1, TRUE, <<>>, None, {"image.bin"})

\* Lines 356-378 on the bytes read, with the config resource c as the
\* reading left it: downscale, write image.bin, write image.format, chmod.
\* sidecarOk says whether the fs::write of line 371 succeeds.
StoreImage(imgData, mime, c, encOk, sidecarOk) ==
    LET r == LoadConfig(c)
        maxDim == IF r.config # None THEN r.config[1].max_image_dimension ELSE None
        processed == DownscaleImageIfNeeded(imgData, mime, maxDim, encOk)
        payload == Written(image, processed, now)
        fmt == IF mime = ImageJpg THEN ImageJpeg ELSE mime
    IN  IF sidecarOk
        THEN Outcome(text, Chmod(payload, Mode600),
                     Chmod(WrittenSidecar(format, fmt), Mode600),
                     r.file, 0, FALSE, <<>>, None,
                     {"image.bin", "image.format"})
        ELSE Outcome(text, payload, format, r.file, 1, TRUE, <<>>, None, {"image.bin"})

\* The image arm of input_type.
InputImageOutcome(mime, file, data, home, encOk, sidecarOk) ==
    LET v == ValidateFileAccess(file[1], data.len, home, cfg)
        r == LoadConfig(cfg)
        maxBytes == StdinMaxBytes(r.config)
        read == Take(data, maxBytes + 1)
    IN  IF file # None
        THEN IF ~v.ok \/ ~FileExists(file[1])
             THEN Outcome(text, image, format, v.file, 1, TRUE, <<>>, None, {})
             ELSE StoreImage(data, mime, v.file, encOk, sidecarOk)
        ELSE IF read.len > maxBytes
             THEN Outcome(text, image, format, r.file, 1, FALSE, <<>>, None, {})
             ELSE StoreImage(read, mime, r.file, encOk, sidecarOk)

\* A variant whose last arm stores what it does not recognise as text.
InputOutcomeDefaultsToText(mime, file, data, home, encOk, sidecarOk) ==
    IF IsImageMime(mime)
    THEN InputImageOutcome(mime, file, data, home, encOk, sidecarOk)
    ELSE InputTextOutcome(file, data, home)

\* input_type(mime, file) after ensure_storage_directory.
InputOutcome(mime, file, data, home, encOk, sidecarOk) ==
    IF IsTextMime(mime) THEN InputTextOutcome(file, data, home)
    ELSE IF IsImageMime(mime)
    THEN InputImageOutcome(mime, file, data, home, encOk, sidecarOk)
    ELSE Outcome(text, image, format, cfg, 1, FALSE, <<>>, None, {})

\* The files and the config resource become what the outcome o says.
Leaves(o) ==
    /\ text' = o.text
    /\ image' = o.image
    /\ format' = o.format
    /\ cfg' = o.cfg
    /\ pre' = Snapshot

\* The file f is there and the TTL d has elapsed for it.
TtlElapsed(f, d) == f.exists /\ now - f.mtime > d

\* main with -o and no -t, or -t TARGETS: print_targets, exit 0.
PrintTargets(arg, env) ==
    LET o == TargetsOutcome(env)
        ttl == LoadTtl(env, cfg).ttl
    IN  /\ arg \in {None, Some(TargetsArg)}
        /\ Leaves(o)
        /\ last' = [Idle EXCEPT !.op = "targets", !.env = env,
                                !.ttl = Some(ttl),
                                !.code = o.code, !.lines = o.lines]
        /\ staleSeen' = staleSeen
                \cup (IF TtlElapsed(image, ttl) THEN {"image"} ELSE {})
                \cup (IF TtlElapsed(text, ttl) THEN {"text"} ELSE {})
        /\ UNCHANGED <<dir, now, declared, procs>>

\* main with -o -t mime: output_type(mime).unwrap_or(1).
OutputType(mime, env) ==
    LET o == OutputOutcome(mime, env)
        ttl == LoadTtl(env, cfg).ttl
    IN  /\ mime # TargetsArg
        /\ Leaves(o)
        /\ last' = [Idle EXCEPT !.op = "output", !.mime = mime, !.env = env,
                                !.ttl = Some(ttl),
                                !.code = o.code, !.err = o.err, !.bytes = o.bytes]
        /\ staleSeen' = staleSeen
                \cup (IF IsTextMime(mime) /\ TtlElapsed(text, ttl)
                      THEN {"text"} ELSE {})
                \cup (IF ~IsTextMime(mime) /\ IsImageMime(mime) /\ TtlElapsed(image, ttl)
                      THEN {"image"} ELSE {})
        /\ UNCHANGED <<dir, now, declared, procs>>

\* main without -o: input_type(mime or text/plain, file).unwrap_or(1).
InputType(arg, file, data, home, encOk, sidecarOk) ==
    LET mime == IF arg = None THEN TextPlain ELSE arg[1]
        o == InputOutcome(mime, file, data, home, encOk, sidecarOk)
    IN  /\ Leaves(o)
        /\ dir' = EnsureStorageDirectory(dir)
        /\ last' = [Idle EXCEPT !.op = "input", !.mime = mime, !.file = file,
                                !.data = data, !.home = home,
                                !.code = o.code, !.err = o.err, !.wrote = o.wrote]
        /\ declared' = IF "image.bin" \notin o.wrote THEN declared
                       ELSE IF o.code = 0 THEN Some(mime) ELSE None
        /\ staleSeen' = staleSeen
                \ ((IF "text.txt" \in o.wrote THEN {"text"} ELSE {})
                     \cup (IF "image.bin" \in o.wrote THEN {"image"} ELSE {}))
        /\ UNCHANGED <<now, procs>>

\* A second passes.
Tick ==
    /\ now < MaxTime
    /\ now' = now + 1
    /\ last' = Idle
    /\ pre' = Snapshot
    /\ UNCHANGED <<dir, text, image, format, cfg, declared, procs, staleSeen>>

\* ------------------------------------------------ overlapping invocations
\* An invocation as a process: every call on the storage directory is a
\* step of its own, and the steps of invocations that run at the same time
\* interleave.  procs[p] holds the position of p (pc), its arguments, what
\* it has read or computed so far, and its result.

Pids == {"p1", "p2", "c"}

\* removedFresh: the process has removed a file of a slot that was fresh
\* under its own TTL at that moment.  orphan: the file the process has
\* open was removed after it opened it.  latest: no other invocation has
\* completed after this one.
ProcIdle ==
    [pc |-> "idle", op |-> "none", slot |-> "", mime |-> <<>>,
     data |-> EmptyPayload, fmt |-> <<>>, ttl |-> 0, orphan |-> FALSE,
     code |-> 0, lines |-> <<>>, bytes |-> None, removedFresh |-> FALSE,
     latest |-> FALSE, wroteAt |-> 0]

SlotFile(slot) == IF slot = "image" THEN image ELSE text

\* The content file of the slot becomes f; the other one stays.
SetSlotFile(slot, f) ==
    IF slot = "image" THEN image' = f /\ text' = text
    ELSE text' = f /\ image' = image

\* write_all from offset 0 into a file that holds old: what lies beyond
\* the bytes written stays.
Overlay(old, new) ==
    IF new.len = 0 THEN old
    ELSE IF old.len <= new.len THEN new
    ELSE Payload(old.len, "torn", None)

\* Process p returns from main with exit status code.
Exits(p, code, rest) ==
    [q \in Pids |->
        IF q = p THEN [rest EXCEPT !.pc = "done", !.code = code, !.latest = TRUE]
        ELSE [procs[q] EXCEPT !.latest = FALSE]]

\* Process p moves on as rec says.
Moves(p, rec) == [procs EXCEPT ![p] = rec]

\* input_type up to the first write (lines 308-359): the directory, the
\* match on the MIME kind, standard input read to its end (bounded for an
\* image), the config lookups and the downscaling.
BeginInput(p, arg, data) ==
    LET mime == IF arg = None THEN TextPlain ELSE arg[1]
        r == LoadConfig(cfg)
        maxBytes == StdinMaxBytes(r.config)
        read == Take(data, maxBytes + 1)
        r2 == LoadConfig(r.file)
        maxDim == IF r2.config # None THEN r2.config[1].max_image_dimension ELSE None
        processed == DownscaleImageIfNeeded(read, mime, maxDim, TRUE)
        me == [procs[p] EXCEPT !.op = "input", !.mime = mime]
    IN  /\ procs[p].pc = "idle"
        /\ dir' = EnsureStorageDirectory(dir)
        /\ IF IsTextMime(mime)
           THEN /\ cfg' = cfg
                /\ procs' = Moves(p, [me EXCEPT !.pc = "create", !.slot = "text",
                                                !.data = data])
           ELSE IF IsImageMime(mime)
           THEN /\ cfg' = r2.file
                /\ procs' = IF read.len > maxBytes THEN Exits(p, 1, me)
                            ELSE Moves(p, [me EXCEPT !.pc = "create", !.slot = "image",
                                              !.data = processed,
                                              !.fmt = IF mime = ImageJpg THEN ImageJpeg
                                                      ELSE mime])
           ELSE /\ cfg' = cfg
                /\ procs' = Exits(p, 1, me)
        /\ UNCHANGED <<text, image, format, now, declared, pre, last, staleSeen>>

\* File::create (lines 319, 362): the file is there and empty.
CreateFile(p) ==
    LET me == procs[p]
    IN  /\ me.pc = "create"
        /\ SetSlotFile(me.slot, Written(SlotFile(me.slot), EmptyPayload, now))
        /\ procs' = Moves(p, [me EXCEPT !.pc = "write", !.orphan = FALSE])
        /\ UNCHANGED <<dir, format, cfg, now, declared, pre, last, staleSeen>>

\* write_all (lines 320, 363) through the handle File::create gave: into
\* the file of that name, unless that file was removed meanwhile.
WriteAll(p) ==
    LET me == procs[p]
        f == SlotFile(me.slot)
    IN  /\ me.pc = "write"
        /\ IF me.orphan \/ ~f.exists
           THEN UNCHANGED <<text, image>>
           ELSE SetSlotFile(me.slot, Written(f, Overlay(f.data, me.data), now))
        /\ procs' = Moves(p, [me EXCEPT
                                !.pc = IF me.slot = "image" THEN "sidecar" ELSE "chmod",
                                !.wroteAt = now])
        /\ UNCHANGED <<dir, format, cfg, now, declared, pre, last, staleSeen>>

\* fs::write of the sidecar (line 371).
WriteSidecar(p) ==
    LET me == procs[p]
    IN  /\ me.pc = "sidecar"
        /\ format' = WrittenSidecar(format, me.fmt)
        /\ procs' = Moves(p, [me EXCEPT !.pc = "chmod"])
        /\ UNCHANGED <<dir, text, image, cfg, now, declared, pre, last, staleSeen>>

\* set_permissions (lines 325, 375-376), failures ignored, and Ok(0).
SetPermissions(p) ==
    LET me == procs[p]
    IN  /\ me.pc = "chmod"
        /\ IF me.slot = "image"
           THEN /\ image' = Chmod(image, Mode600)
                /\ format' = Chmod(format, Mode600)
                /\ text' = text
           ELSE /\ text' = Chmod(text, Mode600)
                /\ UNCHANGED <<image, format>>
        /\ procs' = Exits(p, 0, me)
        /\ UNCHANGED <<dir, cfg, now, declared, pre, last, staleSeen>>

\* main in output mode up to load_ttl (lines 119, 152, 169).
BeginOutput(p, arg, env) ==
    LET lt == LoadTtl(env, cfg)
        me == [procs[p] EXCEPT !.ttl = lt.ttl]
    IN  /\ procs[p].pc = "idle"
        /\ IF arg \in {None, Some(TargetsArg)}
           THEN /\ cfg' = lt.file
                /\ procs' = Moves(p, [me EXCEPT !.pc = "fresh", !.op = "targets",
                                                !.slot = "image"])
           ELSE IF IsTextMime(arg[1])
           THEN /\ cfg' = lt.file
                /\ procs' = Moves(p, [me EXCEPT !.pc = "fresh", !.op = "output",
                                                !.mime = arg[1], !.slot = "text"])
           ELSE IF IsImageMime(arg[1])
           THEN /\ cfg' = lt.file
                /\ procs' = Moves(p, [me EXCEPT !.pc = "fresh", !.op = "output",
                                                !.mime = arg[1], !.slot = "image"])
           ELSE /\ cfg' = cfg
                /\ procs' = Exits(p, 1, [procs[p] EXCEPT !.op = "output",
                                                         !.mime = arg[1]])
        /\ UNCHANGED <<dir, text, image, format, now, declared, pre, last, staleSeen>>

\* What follows the handling of a slot: the text slot after the image slot
\* in print_targets, else the return (0 from a listing, Ok(1) from
\* output_type).
AfterSlot(p, me) ==
    IF me.op = "targets" /\ me.slot = "image"
    THEN Moves(p, [me EXCEPT !.pc = "fresh", !.slot = "text"])
    ELSE Exits(p, IF me.op = "targets" THEN 0 ELSE 1, me)

\* is_file_fresh (lines 123, 139, 153, 170).
CheckFresh(p) ==
    LET me == procs[p]
        fresh == IsFileFresh(SlotFile(me.slot), me.ttl, now)
        found == IF me.op = "targets" THEN "print"
                 ELSE IF me.slot = "image" THEN "readformat" ELSE "serve"
    IN  /\ me.pc = "fresh"
        /\ procs' = Moves(p, [me EXCEPT !.pc = IF fresh THEN found ELSE "exists"])
        /\ UNCHANGED <<dir, text, image, format, cfg, now, declared, pre, last, staleSeen>>

\* The lines of print_targets for a fresh slot (lines 124-131, 140-141).
PrintLines(p) ==
    LET me == procs[p]
        new == IF me.slot = "text" THEN <<TextPlainUtf8, StringTarget>>
               ELSE IF ~format.exists THEN <<>>
               ELSE IF format.fmt = ImageJpeg THEN <<ImageJpeg, ImageJpg>>
               ELSE <<format.fmt>>
    IN  /\ me.pc = "print"
        /\ procs' = AfterSlot(p, [me EXCEPT !.lines = me.lines \o new])
        /\ UNCHANGED <<dir, text, image, format, cfg, now, declared, pre, last, staleSeen>>

\* read_to_string of the sidecar and the comparison (lines 172-177).
ReadFormat(p) ==
    LET me == procs[p]
        matches ==
            /\ format.exists
            /\ \/ me.mime = format.fmt
               \/ (me.mime = ImageJpg /\ format.fmt = ImageJpeg)
    IN  /\ me.pc = "readformat"
        /\ procs' = IF matches THEN Moves(p, [me EXCEPT !.pc = "serve"])
                    ELSE Exits(p, 1, me)
        /\ UNCHANGED <<dir, text, image, format, cfg, now, declared, pre, last, staleSeen>>

\* File::open, read_to_end, write_all to standard output (lines 154-158,
\* 178-182); a file that is gone makes File::open fail.
Serve(p) ==
    LET me == procs[p]
        f == SlotFile(me.slot)
    IN  /\ me.pc = "serve"
        /\ procs' = IF f.exists THEN Exits(p, 0, [me EXCEPT !.bytes = Some(f.data)])
                    ELSE Exits(p, 1, me)
        /\ UNCHANGED <<dir, text, image, format, cfg, now, declared, pre, last, staleSeen>>

\* Path::exists on the content file (lines 132, 142, 161, 185).
CheckExists(p) ==
    LET me == procs[p]
    IN  /\ me.pc = "exists"
        /\ procs' = IF SlotFile(me.slot).exists
                    THEN Moves(p, [me EXCEPT !.pc = "remove"])
                    ELSE AfterSlot(p, me)
        /\ UNCHANGED <<dir, text, image, format, cfg, now, declared, pre, last, staleSeen>>

\* remove_file on the content file (lines 134, 144, 162, 187); a process
\* that holds the file open keeps writing to what is no longer there.
RemoveContent(p) ==
    LET me == [procs[p] EXCEPT
                  !.removedFresh = @ \/ IsFileFresh(SlotFile(procs[p].slot),
                                                    procs[p].ttl, now)]
        after == IF me.slot = "image"
                 THEN Moves(p, [me EXCEPT !.pc = "removeformat"])
                 ELSE AfterSlot(p, me)
    IN  /\ me.pc = "remove"
        /\ SetSlotFile(me.slot, NoFile)
        /\ procs' = [q \in Pids |->
                        IF q # p /\ procs[q].pc = "write" /\ procs[q].slot = me.slot
                        THEN [after[q] EXCEPT !.orphan = TRUE]
                        ELSE after[q]]
        /\ UNCHANGED <<dir, format, cfg, now, declared, pre, last, staleSeen>>

\* remove_file on the sidecar (lines 135, 188).
RemoveFormat(p) ==
    LET me == [procs[p] EXCEPT
                  !.removedFresh = @ \/ (format.exists
                                          /\ IsFileFresh(image, procs[p].ttl, now))]
    IN  /\ me.pc = "removeformat"
        /\ format' = NoSidecar
        /\ procs' = AfterSlot(p, me)
        /\ UNCHANGED <<dir, text, image, cfg, now, declared, pre, last, staleSeen>>

\* The command is run again.
Again(p) ==
    /\ procs[p].pc = "done"
    /\ procs' = Moves(p, [ProcIdle EXCEPT !.latest = procs[p].latest])
    /\ UNCHANGED <<dir, text, image, format, cfg, now, declared, pre, last, staleSeen>>

\* Some step of an invocation under way.
Step(p) ==
    \/ CreateFile(p)
    \/ WriteAll(p)
    \/ WriteSidecar(p)
    \/ SetPermissions(p)
    \/ CheckFresh(p)
    \/ PrintLines(p)
    \/ ReadFormat(p)
    \/ Serve(p)
    \/ CheckExists(p)
    \/ RemoveContent(p)
    \/ RemoveFormat(p)

\* --------------------------------------------------------- specifications

\* The state before the first invocation: no storage directory (or one of
\* ds), nothing stored, one of the config resources cs.
InitWith(ds, cs) ==
    /\ dir \in ds
    /\ text = NoFile
    /\ image = NoFile
    /\ format = NoSidecar
    /\ cfg \in cs
    /\ now = 0
    /\ declared = None
    /\ staleSeen = {}
    /\ pre = [dir |-> dir, text |-> NoFile, image |-> NoFile,
              format |-> NoSidecar, cfg |-> cfg, staleSeen |-> {}]
    /\ last = Idle
    /\ procs = [p \in Pids |-> ProcIdle]

\* Values of WSL_CLIP_BRIDGE_TTL_SECS: unset, 0, 1.
EnvTtls == {None, Some(EnvSecs(0)), Some(EnvSecs(1))}

HomeDir == Some(<<"home">>)

\* The encoder can only fail where there is a picture to encode.
EncChoices(data) == IF data.dims = None THEN {TRUE} ELSE BOOLEAN

\* Spec: both slots, text and images from standard input and from a file
\* in the home directory, first use of the config and a config with a TTL.

Payloads ==
    {EmptyPayload, Payload(1, "a", None), Payload(7, "c", <<3000, 2000>>)}

Configs == {AbsentConfig, Config(Some(1), None, None, None, None)}

InputArgs == {None, Some(ImagePng), Some(ImageJpg), Some(OctetStream)}

OutputMimes == {TextPlain, TextPlainUtf8, ImagePng, ImageJpeg, StringTarget}

InputFiles == {None, Some(<<"home", "a">>)}

Init == InitWith({NoDir}, Configs)

Next ==
    \/ Tick
    \/ \E arg \in {None, Some(TargetsArg)}, env \in EnvTtls : PrintTargets(arg, env)
    \/ \E mime \in OutputMimes, env \in EnvTtls : OutputType(mime, env)
    \/ \E arg \in InputArgs, file \in InputFiles, data \in Payloads :
         \E encOk \in EncChoices(data) :
            InputType(arg, file, data, HomeDir, encOk, TRUE)

Spec == Init /\ [][Next]_vars

\* SpecImage: the image slot alone, under a config that downscales; the
\* write of the sidecar may fail after image.bin was written.

ImageConfigs == {Config(None, Some(DefaultMaxImageDimension), None, None, None)}

ImageInputArgs == {Some(ImagePng), Some(ImageJpeg), Some(ImageJpg)}

ImageOutputMimes == {ImagePng, ImageJpeg, ImageJpg, ImageGif}

InitImage == InitWith({NoDir}, ImageConfigs)

NextImage ==
    \/ Tick
    \/ \E env \in EnvTtls : PrintTargets(None, env)
    \/ \E mime \in ImageOutputMimes, env \in EnvTtls : OutputType(mime, env)
    \/ \E arg \in ImageInputArgs, data \in Payloads, sidecarOk \in BOOLEAN :
         \E encOk \in EncChoices(data) :
            InputType(arg, None, data, HomeDir, encOk, sidecarOk)

SpecImage == InitImage /\ [][NextImage]_vars

\* SpecAccess: text and images from files inside and outside the home
\* directory, named directly, through the symbolic link and through "..",
\* under configs that restrict the sources, with HOME unset, the real
\* directory or the link.

AccessConfigs ==
    {Config(None, None, None, Some(TRUE), None),
     Config(None, None, None, Some(FALSE), Some(<< <<"mnt">> >>)),
     Config(None, None, None, Some(TRUE), Some(<< <<"h">>, <<"home">> >>)),
     Config(None, None, None, None, Some(<<>>))}

Homes == {None, Some(<<"home">>), Some(<<"h">>)}

AccessFiles ==
    {None, Some(<<"home", "a">>), Some(<<"h", "a">>), Some(<<"mnt", "b">>),
     Some(<<"home", "..", "mnt", "b">>), Some(<<"home", "nofile">>)}

AccessPayload == Payload(1, "a", None)

InitAccess == InitWith({NoDir}, AccessConfigs)

NextAccess ==
    \/ Tick
    \/ PrintTargets(None, None)
    \/ \E mime \in {TextPlain, ImagePng} : OutputType(mime, None)
    \/ \E arg \in {None, Some(ImagePng)}, file \in AccessFiles, home \in Homes :
            InputType(arg, file, AccessPayload, home, TRUE, TRUE)

SpecAccess == InitAccess /\ [][NextAccess]_vars

\* SpecSize: images of the lengths around the limits, from standard input
\* and from a file, with no config, with max_file_size_mb absent, 0 and 1.

SizeConfigs ==
    {AbsentConfig, Config(None, None, None, None, None),
     Config(None, None, Some(0), None, None),
     Config(None, None, Some(1), None, None)}

SizePayloads ==
    {EmptyPayload, Payload(1, "a", None),
     Payload(BytesPerMb, "m", None), Payload(BytesPerMb + 1, "n", None),
     Payload(DefaultStdinLimitMb * BytesPerMb, "x", None),
     Payload(DefaultStdinLimitMb * BytesPerMb + 1, "y", None)}

InitSize == InitWith({NoDir}, SizeConfigs)

NextSize ==
    \/ Tick
    \/ PrintTargets(None, None)
    \/ OutputType(ImagePng, None)
    \/ \E file \in InputFiles, data \in SizePayloads :
            InputType(Some(ImagePng), file, data, HomeDir, TRUE, TRUE)

SpecSize == InitSize /\ [][NextSize]_vars

\* SpecScale: pictures below, at and above max_image_dimension and bytes
\* that do not decode, from standard input and from a file, with no
\* config, with max_image_dimension absent, 0 and 1568.

ScaleConfigs ==
    {AbsentConfig, Config(None, None, None, None, None),
     Config(None, Some(0), None, None, None),
     Config(None, Some(DefaultMaxImageDimension), None, None, None)}

ScalePayloads ==
    {Payload(1, "a", None),
     Payload(5, "s", <<1000, DefaultMaxImageDimension>>),
     Payload(6, "t", <<DefaultMaxImageDimension + 1, 1000>>),
     Payload(7, "c", <<3000, 2000>>)}

InitScale == InitWith({NoDir}, ScaleConfigs)

NextScale ==
    \/ Tick
    \/ PrintTargets(None, None)
    \/ \E mime \in {ImagePng, ImageGif} : OutputType(mime, None)
    \/ \E arg \in {Some(ImagePng), Some(ImageGif)}, file \in InputFiles,
          data \in ScalePayloads :
         \E encOk \in EncChoices(data) :
            InputType(arg, file, data, HomeDir, encOk, TRUE)

SpecScale == InitScale /\ [][NextScale]_vars

\* SpecProducers: two image inputs from standard input, declared image/png
\* and image/gif, that run at the same time.

RaceConfigs == {Config(Some(1), None, None, None, None)}

InitProducers == InitWith({NoDir}, RaceConfigs)

NextProducers ==
    \/ \E data \in {Payload(1, "d", None), Payload(3, "a", None)} :
          BeginInput("p1", Some(ImagePng), data)
    \/ BeginInput("p2", Some(ImageGif), Payload(2, "b", None))
    \/ \E p \in {"p1", "p2"} :
          CreateFile(p) \/ WriteAll(p) \/ WriteSidecar(p) \/ SetPermissions(p)

SpecProducers == InitProducers /\ [][NextProducers]_vars

\* SpecEvict: an input (text or image/png, from standard input) and an
\* output-mode invocation (a listing, text/plain or image/png) that run at
\* the same time while the clock advances; the input may be run again.

InitEvict == InitWith({NoDir}, RaceConfigs)

NextEvict ==
    \/ Tick
    \/ \E arg \in {None, Some(ImagePng)} : BeginInput("p1", arg, Payload(3, "a", None))
    \/ \E arg \in {None, Some(TextPlain), Some(ImagePng)} : BeginOutput("c", arg, None)
    \/ \E p \in {"p1", "c"} : Step(p)
    \/ Again("p1")

SpecEvict == InitEvict /\ [][NextEvict]_vars

\* SpecModes: the storage directory absent, or made beforehand by mkdir;
\* texts and images from standard input, with the sidecar write failing
\* or not, so that files are found with the mode File::create gave them.

\* What mkdir gives a directory under the usual umask.
ModeMkdir == "0755"

ModeDirs == {NoDir, [exists |-> TRUE, mode |-> ModeMkdir]}

InitModes == InitWith(ModeDirs, {Config(None, None, None, None, None)})

NextModes ==
    \/ Tick
    \/ PrintTargets(None, Some(EnvSecs(1)))
    \/ \E mime \in {TextPlain, ImagePng} : OutputType(mime, Some(EnvSecs(1)))
    \/ \E arg \in {None, Some(ImagePng)}, file \in InputFiles, sidecarOk \in BOOLEAN :
            InputType(arg, file, Payload(1, "a", None), HomeDir, TRUE, sidecarOk)

SpecModes == InitModes /\ [][NextModes]_vars

\* SpecTtl: the text slot under every source of the TTL: the environment
\* value unset, not a u64, 0, 1, the ceiling and one more; no config, a
\* config that does not parse, one without ttl_secs, with 1 and with one
\* more than the ceiling.

TtlEnvs ==
    {None, Some(EnvGarbage), Some(EnvSecs(0)), Some(EnvSecs(1)),
     Some(EnvSecs(MaxTtlSecs)), Some(EnvSecs(MaxTtlSecs + 1))}

TtlConfigs ==
    {AbsentConfig, InvalidConfig, Config(None, None, None, None, None),
     Config(Some(1), None, None, None, None),
     Config(Some(MaxTtlSecs + 1), None, None, None, None)}

InitTtl == InitWith({NoDir}, TtlConfigs)

NextTtl ==
    \/ Tick
    \/ \E env \in TtlEnvs : PrintTargets(None, env)
    \/ \E env \in TtlEnvs : OutputType(TextPlain, env)
    \/ InputType(None, None, Payload(1, "a", None), HomeDir, TRUE, TRUE)

SpecTtl == InitTtl /\ [][NextTtl]_vars

\* ----------------------------------------------------------------- claims
\* The claims speak of the last invocation (last), of the files as it found
\* them (pre) and of the files as it left them.

TextKinds == {TextPlain, TextPlainUtf8}

ImageKinds == {ImagePng, ImageJpeg, ImageJpg, ImageGif, ImageWebp}

\* The TTL had not elapsed for file f when the last invocation ran.
WithinTtl(f) == last.ttl # None /\ now - f.mtime <= last.ttl[1]

\* Fresh as the spec defines it, under the TTL d.
FreshUnder(f, d) == f.exists /\ f.data.len > 0 /\ now - f.mtime <= d

\* An input-mode invocation stored its payload as text.
StoredText ==
    /\ last.op = "input"
    /\ last.mime \in TextKinds
    /\ last.code = 0

\* An output-mode invocation asked for text while text.txt was there and
\* its TTL had not elapsed.
AskedTextInTime ==
    /\ last.op = "output"
    /\ last.mime \in TextKinds
    /\ pre.text.exists
    /\ WithinTtl(pre.text)

\* text.txt holds exactly the bytes of the input, written now.
TextIsInput == text.exists /\ text.data = last.data /\ text.mtime = now

\* The output is exactly what text.txt held, with exit status 0.
EmitsStoredText == last.code = 0 /\ last.bytes = Some(pre.text.data)

\* C1 as stated: every byte string B stored as text comes back, byte for
\* byte and with exit status 0, from a text/plain* request made within the
\* TTL with no write in between.
C1_RoundTripEveryB ==
    /\ StoredText => TextIsInput
    /\ AskedTextInTime => EmitsStoredText

\* C1 (amended): every non-empty byte string B stored as text comes back,
\* byte for byte and with exit status 0, from a text/plain* request made
\* within the TTL with no write in between.
C1_RoundTrip ==
    /\ StoredText => TextIsInput
    /\ (AskedTextInTime /\ pre.text.data.len > 0) => EmitsStoredText

\* A non-empty text stored earlier is emitted by a later request.
C1_Witness ==
    /\ AskedTextInTime
    /\ pre.text.data.len > 0
    /\ pre.text.mtime < now
    /\ last.mime = TextPlainUtf8
    /\ EmitsStoredText

\* C2: is_file_fresh says fresh exactly when the file exists, is non-empty
\* and the elapsed time is at most the TTL (the boundary included); a text
\* request succeeds, and a listing names text, exactly in that case.
C2_Freshness ==
    /\ \A d \in 0..(MaxTime + 1) : \A f \in {text, image} :
          IsFileFresh(f, d, now) <=> FreshUnder(f, d)
    /\ (last.op = "output" /\ last.mime \in TextKinds) =>
          (last.code = 0 <=> FreshUnder(pre.text, last.ttl[1]))
    /\ last.op = "targets" =>
          ((\E i \in 1..Len(last.lines) : last.lines[i] = TextPlainUtf8)
              <=> FreshUnder(pre.text, last.ttl[1]))

\* A text served when the elapsed time equals a non-zero TTL.
C2_Witness ==
    /\ last.op = "output"
    /\ last.mime \in TextKinds
    /\ last.ttl = Some(1)
    /\ now - pre.text.mtime = 1
    /\ pre.text.exists
    /\ last.code = 0

\* The TTL of the last invocation has elapsed for file f.
Expired(f) == f.exists /\ last.ttl # None /\ now - f.mtime > last.ttl[1]

\* No line of the listing names a kind of ks.
ListsNone(ks) == \A i \in 1..Len(last.lines) : last.lines[i] \notin ks

\* C3: a targets query that finds a slot's content file with its TTL
\* elapsed leaves that kind out of the listing and leaves the slot's files
\* absent (image.bin and image.format, or text.txt).
C3_StalenessEviction ==
    last.op = "targets" =>
        /\ Expired(pre.image) =>
              (~image.exists /\ ~format.exists /\ ListsNone(ImageKinds))
        /\ Expired(pre.text) =>
              (~text.exists /\ ListsNone({TextPlainUtf8, StringTarget}))

\* A listing that found both slots expired, the image with its sidecar.
C3_Witness ==
    /\ last.op = "targets"
    /\ Expired(pre.image)
    /\ pre.format.exists
    /\ Expired(pre.text)
    /\ ~image.exists /\ ~format.exists /\ ~text.exists

\* The three files are as the last invocation found them.
SlotsUntouched == text = pre.text /\ image = pre.image /\ format = pre.format

\* C9: an input-mode invocation whose MIME kind is neither text/plain* nor
\* one of the five image kinds exits 1 and leaves text.txt, image.bin and
\* image.format unchanged.
C9_UnsupportedInput ==
    (last.op = "input" /\ last.mime \notin TextKinds \cup ImageKinds) =>
        (last.code = 1 /\ SlotsUntouched)

\* An unsupported input while both slots held something.
C9_Witness ==
    /\ last.op = "input"
    /\ last.mime = OctetStream
    /\ pre.text.exists /\ pre.image.exists /\ pre.format.exists
    /\ last.code = 1

\* C10: an invocation that starts with no config resource and consults the
\* config leaves the default resource behind, and none of the default's
\* options takes effect in it: in particular an image it stores is not
\* downscaled to the default's max_image_dimension.
C10_FirstUseNoConfig ==
    (last.op = "input" /\ last.mime \in ImageKinds /\ pre.cfg.kind = "absent"
        /\ last.code = 0) =>
        (cfg = DefaultConfig /\ image.data = last.data)

\* The output is exactly what image.bin held, with exit status 0.
EmitsStoredImage == last.code = 0 /\ last.bytes = Some(pre.image.data)

\* An output-mode invocation asked for the kind asked, within the TTL,
\* while image.bin was as a successful input declared as kind had left it.
AskedAfterDeclared(kind, asked) ==
    /\ last.op = "output"
    /\ last.mime = asked
    /\ declared = Some(kind)
    /\ pre.image.exists
    /\ WithinTtl(pre.image)

\* C4 as stated: after a successful input declared image/jpg a request for
\* image/jpeg within the TTL exits 0 with the stored bytes, and so does a
\* request for image/jpg after an input declared image/jpeg; image.format
\* never holds image/jpg.
C4_AliasEveryPayload ==
    /\ AskedAfterDeclared(ImageJpg, ImageJpeg) => EmitsStoredImage
    /\ AskedAfterDeclared(ImageJpeg, ImageJpg) => EmitsStoredImage
    /\ format.exists => format.fmt # ImageJpg

\* C4 (amended): after a successful input of a non-empty payload declared
\* image/jpg a request for image/jpeg within the TTL exits 0 with the
\* stored bytes, and so does a request for image/jpg after an input
\* declared image/jpeg; image.format never holds image/jpg.
C4_AliasSymmetry ==
    /\ (AskedAfterDeclared(ImageJpg, ImageJpeg) /\ pre.image.data.len > 0)
          => EmitsStoredImage
    /\ (AskedAfterDeclared(ImageJpeg, ImageJpg) /\ pre.image.data.len > 0)
          => EmitsStoredImage
    /\ format.exists => format.fmt # ImageJpg

\* A picture declared image/jpg, stored downscaled, served as image/jpeg.
C4_Witness ==
    /\ AskedAfterDeclared(ImageJpg, ImageJpeg)
    /\ pre.image.data.dims # None
    /\ pre.image.mtime < now
    /\ EmitsStoredImage

\* The sidecar s is there and records the requested kind m (image/jpg
\* asks for a stored image/jpeg).
Records(s, m) ==
    /\ s.exists
    /\ (m = s.fmt \/ (m = ImageJpg /\ s.fmt = ImageJpeg))

\* C5: a request for an image kind while image.bin is fresh and the
\* sidecar is missing or records another kind exits 1 through Ok(1) and
\* leaves image.bin and image.format as they were; an image request that
\* changes either file found image.bin there and not fresh.
C5_MismatchKeepsImage ==
    (last.op = "output" /\ last.mime \in ImageKinds) =>
        /\ (FreshUnder(pre.image, last.ttl[1]) /\ ~Records(pre.format, last.mime)) =>
              (last.code = 1 /\ ~last.err /\ image = pre.image /\ format = pre.format)
        /\ (image # pre.image \/ format # pre.format) =>
              (pre.image.exists /\ ~FreshUnder(pre.image, last.ttl[1]))

\* A fresh image whose sidecar records another kind than the one asked.
C5_Witness ==
    /\ last.op = "output"
    /\ last.mime \in ImageKinds
    /\ FreshUnder(pre.image, last.ttl[1])
    /\ pre.format.exists
    /\ ~Records(pre.format, last.mime)
    /\ last.code = 1
    /\ image = pre.image /\ format = pre.format

\* Where the path p leads, links and ".." followed.
RealPath(p) == Resolve(<<>>, p)

\* The file named p lies in the directory named d.
Inside(p, d) == StartsWith(RealPath(p), RealPath(d))

\* The source file lies outside HOME while restrict_to_home is true.
OutsideHome ==
    /\ pre.cfg.restrict_to_home = Some(TRUE)
    /\ last.home # None
    /\ ~Inside(last.file[1], last.home[1])

\* The source file lies outside every entry of a non-empty
\* allowed_directories.
OutsideAllowed ==
    /\ pre.cfg.allowed_directories # None
    /\ pre.cfg.allowed_directories[1] # <<>>
    /\ \A i \in 1..Len(pre.cfg.allowed_directories[1]) :
          ~Inside(last.file[1], pre.cfg.allowed_directories[1][i])

\* An input-mode invocation named a source file the config shuts out.
DeniedSource ==
    /\ last.op = "input"
    /\ last.mime \in TextKinds \cup ImageKinds
    /\ last.file # None
    /\ pre.cfg.kind = "toml"
    /\ (OutsideHome \/ OutsideAllowed)

\* C6: with a config present, an input-mode invocation whose source file
\* is outside every allowed_directories entry, or outside the home
\* directory (HOME) when restrict_to_home is true, exits 1 and creates or
\* modifies none of text.txt, image.bin and image.format.
C6_AccessDenial ==
    DeniedSource => (last.code = 1 /\ last.wrote = {} /\ SlotsUntouched)

\* An image from a path that starts in the home directory and leads out
\* of it, refused while the image slot held something.
C6_Witness ==
    /\ DeniedSource
    /\ OutsideHome
    /\ last.file = Some(<<"home", "..", "mnt", "b">>)
    /\ last.mime = ImagePng
    /\ pre.image.exists
    /\ last.code = 1

\* An image from standard input under a config that sets max_file_size_mb.
StdinImageUnderLimit ==
    /\ last.op = "input"
    /\ last.mime \in ImageKinds
    /\ last.file = None
    /\ pre.cfg.kind = "toml"
    /\ pre.cfg.max_file_size_mb # None

\* max_file_size_mb in bytes.
LimitBytes == pre.cfg.max_file_size_mb[1] * BytesPerMb

\* C7: an image from standard input longer than max_file_size_mb in bytes
\* exits 1 and leaves image.bin and image.format unchanged; one of exactly
\* that length is accepted and stored.
C7_StdinSizeLimit ==
    StdinImageUnderLimit =>
        /\ last.data.len > LimitBytes =>
              (last.code = 1 /\ last.wrote = {}
                  /\ image = pre.image /\ format = pre.format)
        /\ last.data.len = LimitBytes =>
              (last.code = 0 /\ image.data = last.data)

\* One byte over a limit of 1 MB, refused while image.bin held other bytes.
C7_Witness ==
    /\ StdinImageUnderLimit
    /\ pre.cfg.max_file_size_mb = Some(1)
    /\ last.data.len = LimitBytes + 1
    /\ pre.image.exists
    /\ pre.image.data # last.data
    /\ last.code = 1
    /\ image = pre.image

\* C8: with max_file_size_mb = 0 an image of any non-zero length is
\* accepted and stored, from a file and from standard input; with the
\* option absent, standard input is limited to 100 MB.
C8_ZeroDisablesLimit ==
    (last.op = "input" /\ last.mime \in ImageKinds /\ pre.cfg.kind = "toml") =>
        /\ (pre.cfg.max_file_size_mb = Some(0) /\ last.data.len > 0) =>
              (last.code = 0 /\ image.data = last.data)
        /\ (pre.cfg.max_file_size_mb = None /\ last.file = None) =>
              (last.code = 0 <=> last.data.len <= DefaultStdinLimitMb * BytesPerMb)

\* The environment value of the last invocation is text that parses as a
\* u64 (after trimming).
EnvParses == last.env # None /\ last.env[1].ok

\* The config resource the last invocation found parses and sets ttl_secs.
ConfigHasTtl == pre.cfg.kind = "toml" /\ pre.cfg.ttl_secs # None

\* C11: the TTL of an output-mode invocation is min(env, 86400) when the
\* environment value parses, else min(ttl_secs, 86400) when the config
\* resource parses and sets ttl_secs, else 300; it never exceeds 86400.
C11_TtlResolution ==
    last.op \in {"targets", "output"} =>
        /\ last.ttl # None
        /\ last.ttl[1] <= 86400
        /\ EnvParses => last.ttl[1] = Min(last.env[1].n, 86400)
        /\ (~EnvParses /\ ConfigHasTtl) => last.ttl[1] = Min(pre.cfg.ttl_secs[1], 86400)
        /\ (~EnvParses /\ ~ConfigHasTtl) => last.ttl[1] = 300

\* An environment value above the ceiling overrides ttl_secs = 1: a text
\* two seconds old is served under a TTL of 86400.
C11_Witness ==
    /\ last.op = "output"
    /\ last.env = Some(EnvSecs(86401))
    /\ pre.cfg.ttl_secs = Some(1)
    /\ last.ttl = Some(86400)
    /\ now - pre.text.mtime = 2
    /\ last.code = 0

\* The lines a listing owes to the image slot as it found it: the kind the
\* sidecar records, and image/jpg after image/jpeg.
ImageLinesDue ==
    IF FreshUnder(pre.image, last.ttl[1]) /\ pre.format.exists
    THEN IF pre.format.fmt = ImageJpeg THEN <<ImageJpeg, ImageJpg>>
         ELSE <<pre.format.fmt>>
    ELSE <<>>

\* The lines a listing owes to the text slot as it found it.
TextLinesDue ==
    IF FreshUnder(pre.text, last.ttl[1]) THEN <<TextPlainUtf8, StringTarget>>
    ELSE <<>>

\* C12: a targets query exits 0 and prints exactly the lines of a fresh
\* image slot (the sidecar's kind, then image/jpg if that kind is
\* image/jpeg) followed by the lines of a fresh text slot
\* (text/plain;charset=utf-8, then STRING); with no fresh slot it prints
\* nothing.
C12_TargetsListing ==
    last.op = "targets" =>
        /\ last.code = 0
        /\ last.lines = ImageLinesDue \o TextLinesDue

\* A listing of four lines: a fresh image/jpeg and a fresh text.
C12_Witness ==
    /\ last.op = "targets"
    /\ last.code = 0
    /\ last.lines = <<ImageJpeg, ImageJpg, TextPlainUtf8, StringTarget>>

\* max_image_dimension as the lookup that precedes the downscaling finds
\* it; the config resource is as that lookup left it.
MaxDimInEffect == IF cfg.kind = "toml" THEN cfg.max_image_dimension ELSE None

\* The input is a picture whose larger side is at most max_image_dimension.
SmallEnough ==
    /\ last.data.dims # None
    /\ MaxDimInEffect # None
    /\ last.data.dims[1] <= MaxDimInEffect[1]
    /\ last.data.dims[2] <= MaxDimInEffect[1]

\* C13: an image input whose larger side is at most max_image_dimension,
\* or taken with max_image_dimension absent or 0, or whose bytes do not
\* decode, is stored in image.bin byte for byte; the downscaling step
\* never makes the invocation fail.
C13_DownscalePassThrough ==
    (last.op = "input" /\ last.mime \in ImageKinds) =>
        /\ last.code = 0
        /\ "image.bin" \in last.wrote
        /\ (SmallEnough \/ MaxDimInEffect \in {None, Some(0)} \/ last.data.dims = None)
              => (image.data = last.data /\ image.mtime = now)

\* A picture whose larger side equals max_image_dimension, stored as given.
C13_Witness ==
    /\ last.op = "input"
    /\ last.mime \in ImageKinds
    /\ MaxDimInEffect = Some(1568)
    /\ last.data.dims = <<1000, 1568>>
    /\ last.code = 0
    /\ image.data = last.data

\* Both image inputs have run to completion with exit status 0.
BothProducersDone ==
    \A p \in {"p1", "p2"} :
        procs[p].pc = "done" /\ procs[p].op = "input" /\ procs[p].code = 0

\* C14: when two image inputs with different declared kinds overlap and
\* both run to completion, image.bin and image.format are both as the
\* one that completed last wrote them.
C14_LastCompletedWriteWins ==
    BothProducersDone =>
        \E p \in {"p1", "p2"} :
            /\ procs[p].latest
            /\ image.exists /\ image.data = procs[p].data
            /\ format.exists /\ format.fmt = procs[p].fmt

\* The input and the output-mode invocation have both completed, and the
\* TTL of the latter has not elapsed since the input wrote its payload.
ProducerAndConsumerDone ==
    /\ procs["p1"].pc = "done" /\ procs["p1"].op = "input" /\ procs["p1"].code = 0
    /\ procs["c"].pc = "done"
    /\ now - procs["p1"].wroteAt <= procs["c"].ttl

\* C15: however an output-mode invocation interleaves with an input to the
\* same slot, it removes no file of a slot that is fresh at that moment,
\* and once both have completed the payload the input wrote is in its
\* slot (with its sidecar, for an image).
C15_EvictsOnlyStale ==
    /\ ~procs["c"].removedFresh
    /\ ProducerAndConsumerDone =>
          /\ SlotFile(procs["p1"].slot).exists
          /\ SlotFile(procs["p1"].slot).data = procs["p1"].data
          /\ procs["p1"].slot = "image" =>
                (format.exists /\ format.fmt = procs["p1"].fmt)

\* The lines a listing prints of the files as the last invocation found
\* them, under the TTL of that invocation.
LinesDue == ImageLinesDue \o TextLinesDue

\* C16: an output-mode request for exactly a string that a listing prints
\* (made under the same TTL, of the same files, before they expire) is
\* served with exit status 0.
C16_ListingRetrievalAgree ==
    (last.op = "output" /\ \E i \in 1..Len(LinesDue) : LinesDue[i] = last.mime) =>
        last.code = 0

\* C17: a slot that an output-mode invocation has found with its TTL
\* elapsed stays unavailable until an input writes it: its content file is
\* gone, a later request for a kind of that slot exits 1 and a later
\* listing leaves the slot out, whatever the TTL of the later invocation.
C17_ExpiryPermanent ==
    /\ "text" \in staleSeen => ~text.exists
    /\ "image" \in staleSeen => ~image.exists
    /\ (last.op = "output" /\ last.mime \in TextKinds /\ "text" \in pre.staleSeen)
          => last.code = 1
    /\ (last.op = "output" /\ last.mime \in ImageKinds /\ "image" \in pre.staleSeen)
          => last.code = 1
    /\ (last.op = "targets" /\ "text" \in pre.staleSeen)
          => ListsNone({TextPlainUtf8, StringTarget})
    /\ (last.op = "targets" /\ "image" \in pre.staleSeen)
          => ListsNone(ImageKinds)

\* A text found stale earlier is asked for again under the TTL of 300
\* seconds and is not there.
C17_Witness ==
    /\ last.op = "output"
    /\ last.mime \in TextKinds
    /\ "text" \in pre.staleSeen
    /\ last.ttl = Some(300)
    /\ last.code = 1

\* The last invocation was an input or a request for a kind of ks.
InputOrRequestOf(ks) == last.op \in {"input", "output"} /\ last.mime \in ks

\* C18: a text input and a request for a text kind, its eviction of a
\* stale text.txt included, leave image.bin and image.format as they were;
\* an image input and a request for an image kind, its eviction included,
\* leave text.txt as it was.
C18_SlotIndependence ==
    /\ InputOrRequestOf(TextKinds) => (image = pre.image /\ format = pre.format)
    /\ InputOrRequestOf(ImageKinds) => text = pre.text

\* A request for text evicts a stale text.txt next to a stored image.
C18_Witness ==
    /\ last.op = "output"
    /\ last.mime \in TextKinds
    /\ pre.text.exists /\ ~text.exists
    /\ pre.image.exists /\ pre.format.exists
    /\ image = pre.image /\ format = pre.format

\* An input names a source file that exists, under a config that parses.
InputFromExistingFile ==
    /\ last.op = "input"
    /\ last.mime \in TextKinds \cup ImageKinds
    /\ last.file # None
    /\ FileExists(last.file[1])
    /\ pre.cfg.kind = "toml"

\* The restrict_to_home check, comparing real paths: passed when it does
\* not apply or the file lies in the directory HOME names.
HomeCheckPasses ==
    \/ pre.cfg.restrict_to_home # Some(TRUE)
    \/ last.home = None
    \/ Inside(last.file[1], last.home[1])

\* The allowed_directories check, comparing real paths: passed when the
\* list is missing or empty or the file lies in a directory an entry names.
AllowedCheckPasses ==
    \/ pre.cfg.allowed_directories \in {None, Some(<<>>)}
    \/ \E i \in 1..Len(pre.cfg.allowed_directories[1]) :
          Inside(last.file[1], pre.cfg.allowed_directories[1][i])

\* C19: path containment compares canonical forms on both sides: a
\* source file passes the restrict_to_home check exactly when its real
\* path lies under the real path of the home directory, and the
\* allowed_directories check exactly when it lies under the real path of
\* some entry, also when the directory is named through a symbolic link.
C19_CanonicalBothSides ==
    InputFromExistingFile =>
        (last.code = 0 <=> (HomeCheckPasses /\ AllowedCheckPasses))

\* C20: after an input that exits 0, every file it wrote (text.txt, or
\* image.bin and image.format) has mode 0600 and the storage directory has
\* mode 0700, whatever the modes were before.
C20_OwnerOnlyStorage ==
    (last.op = "input" /\ last.code = 0) =>
        /\ dir.exists /\ dir.mode = Mode700
        /\ "text.txt" \in last.wrote => text.mode = Mode600
        /\ "image.bin" \in last.wrote => image.mode = Mode600
        /\ "image.format" \in last.wrote => format.mode = Mode600

====
